---- MODULE Spec2Model ----
(***************************************************************************)
(* Model of lib/validate.js of serverless-webpack: the validate() pass     *)
(* that resolves the webpack entries of the declared functions, loads and  *)
(* defaults the webpack configuration, cleans the output directory and     *)
(* either finalizes one configuration or fans it out per function.         *)
(*                                                                         *)
(* Strings are sequences of one-character strings, so that the parsing of  *)
(* handlers, path.extname, path.join, path.relative and _.size are         *)
(* computed character by character as the code computes them.  An optional *)
(* value (a JavaScript property that may be undefined) is <<>> when absent *)
(* and <<v>> when present.                                                 *)
(***************************************************************************)
EXTENDS Naturals, Sequences, FiniteSets

None == <<>>
Some(x) == <<x>>
IsSome(o) == Len(o) = 1
Val(o) == o[1]

(***************************************************************************)
(* Bounds of the model.                                                    *)
(***************************************************************************)
MaxFiles == 5       \* longest candidate listing the listing service returns
MaxFuncs == 2       \* most functions a service declares
MaxPasses == 2      \* most validate() passes on one plugin instance

(***************************************************************************)
(* Generic sequence helpers (lodash and String primitives).                *)
(***************************************************************************)
Range(s) == {s[i] : i \in 1..Len(s)}

\* String.prototype.lastIndexOf for a single character; 0 when absent.
LastIndexOf(s, c) ==
  LET hits == {i \in 1..Len(s) : s[i] = c}
  IN  IF hits = {} THEN 0 ELSE CHOOSE i \in hits : \A j \in hits : j <= i

Prefix(s, n) == SubSeq(s, 1, n)
Suffix(s, n) == SubSeq(s, n, Len(s))

Reverse(s) == [i \in 1..Len(s) |-> s[Len(s) + 1 - i]]

\* _.size of a string: its number of characters.
Size(s) == Len(s)

\* _.first
First(s) == s[1]

\* _.filter on an array, with the predicate given as the set it accepts.
RECURSIVE Filter(_, _)
Filter(s, keep) ==
  IF s = <<>> THEN <<>>
  ELSE IF Head(s) \in keep THEN <<Head(s)>> \o Filter(Tail(s), keep)
       ELSE Filter(Tail(s), keep)

\* _.uniq: keeps the first occurrence of every element.
RECURSIVE Uniq(_)
Uniq(s) ==
  IF s = <<>> THEN <<>>
  ELSE LET r == Uniq(Prefix(s, Len(s) - 1))
           x == s[Len(s)]
       IN  IF x \in Range(r) THEN r ELSE Append(r, x)

\* Inserts x into the sorted sequence s behind every element that is not
\* longer than x.
RECURSIVE InsertBySize(_, _)
InsertBySize(s, x) ==
  IF s = <<>> THEN <<x>>
  ELSE IF Size(Head(s)) <= Size(x) THEN <<Head(s)>> \o InsertBySize(Tail(s), x)
       ELSE <<x>> \o s

\* _.sortBy(s, a => _.size(a)): a stable sort by ascending size.
RECURSIVE SortBySize(_)
SortBySize(s) ==
  IF s = <<>> THEN <<>>
  ELSE InsertBySize(SortBySize(Prefix(s, Len(s) - 1)), s[Len(s)])

(***************************************************************************)
(* Node's path module (posix flavour), on relative paths.                  *)
(***************************************************************************)
\* The segments of p between '/' characters (empty segments included).
RECURSIVE Split(_)
Split(p) ==
  LET hits == {i \in 1..Len(p) : p[i] = "/"}
  IN  IF hits = {} THEN <<p>>
      ELSE LET i == CHOOSE k \in hits : \A j \in hits : k <= j
           IN  <<Prefix(p, i - 1)>> \o Split(Suffix(p, i + 1))

\* Segments joined with '/'.
RECURSIVE JoinSegments(_)
JoinSegments(segs) ==
  IF segs = <<>> THEN <<>>
  ELSE IF Len(segs) = 1 THEN segs[1]
       ELSE segs[1] \o <<"/">> \o JoinSegments(Tail(segs))

\* normalizeString of Node's path: drops '' and '.', resolves '..' against
\* the segment before it, keeps a leading '..' of a relative path.
RECURSIVE NormalizeSegments(_, _)
NormalizeSegments(segs, acc) ==
  IF segs = <<>> THEN acc
  ELSE LET s == Head(segs)
       IN  IF s = <<>> \/ s = <<".">> THEN NormalizeSegments(Tail(segs), acc)
           ELSE IF s = <<".", ".">>
                THEN IF acc # <<>> /\ acc[Len(acc)] # <<".", ".">>
                     THEN NormalizeSegments(Tail(segs), Prefix(acc, Len(acc) - 1))
                     ELSE NormalizeSegments(Tail(segs), Append(acc, s))
                ELSE NormalizeSegments(Tail(segs), Append(acc, s))

\* path.normalize of a relative path: '.' for an empty result, a trailing
\* '/' is kept.
PathNormalize(p) ==
  LET body == JoinSegments(NormalizeSegments(Split(p), <<>>))
      trailing == p # <<>> /\ p[Len(p)] = "/"
  IN  IF body = <<>> THEN (IF trailing THEN <<".", "/">> ELSE <<".">>)
      ELSE IF trailing THEN body \o <<"/">> ELSE body

\* path.join(a, b): empty arguments are skipped, the rest is normalized.
PathJoin(a, b) ==
  IF a = <<>> /\ b = <<>> THEN <<".">>
  ELSE IF a = <<>> THEN PathNormalize(b)
  ELSE IF b = <<>> THEN PathNormalize(a)
  ELSE PathNormalize(a \o <<"/">> \o b)

\* path.relative('.', p) for a relative p: p resolved against the working
\* directory and expressed from it, so without './', doubled or trailing '/'.
PathRelative(p) == JoinSegments(NormalizeSegments(Split(p), <<>>))

\* path.basename without the trailing '/' characters.
RECURSIVE StripTrailingSlashes(_)
StripTrailingSlashes(p) ==
  IF p # <<>> /\ p[Len(p)] = "/" THEN StripTrailingSlashes(Prefix(p, Len(p) - 1))
  ELSE p

BaseName(p) ==
  LET q == StripTrailingSlashes(p)
  IN  Suffix(q, LastIndexOf(q, "/") + 1)

\* path.extname: from the last '.' of the base name to its end; '' when the
\* base name has no '.', when its only '.' is its first character, or when
\* it is '..'.
ExtName(p) ==
  LET b == BaseName(p)
      d == LastIndexOf(b, ".")
  IN  IF d <= 1 \/ b = <<".", ".">> THEN <<>> ELSE Suffix(b, d)

(***************************************************************************)
(* The inputs of a pass: the service declaration, the plugin options and   *)
(* the external services (candidate listing, file existence, loader).      *)
(***************************************************************************)
VARIABLES
  functions,            \* serverless.service.functions: the handlers, in declaration order
  optFunction,          \* options.function: 0 when unset, else the index of the selected function
  optOut,               \* options.out (optional string)
  verbose,              \* options.verbose
  keepOutputDirectory,  \* this.keepOutputDirectory
  individually,         \* serverless.service.package.individually
  provider,             \* serverless.service.provider.name
  customWebpack,        \* serverless.service.custom.webpack: "absent", "file" or "inline"
  fileExists,           \* what serverless.utils.fileExistsSync answers for the configuration file
  loadThrows,           \* whether require() of the configuration file throws
  configObject,         \* the inline custom.webpack object, or the exports of the configuration module
  listing,              \* the files of the service directory: base path -> suffixes in listing order
  \* the state of the plugin instance and of lib/index
  lib,                  \* lib.serverless / lib.options / lib.entries
  webpackConfig,        \* this.webpackConfig
  webpackOutputPath,    \* this.webpackOutputPath
  multiCompile,         \* this.multiCompile
  entryFunctions,       \* this.entryFunctions
  \* what the latest pass did to the outside
  globbyCalls,          \* the file names globby.sync was called with
  requireCalls,         \* the paths require() was called with
  removeCalls,          \* the paths fse.removeSync was called with
  logs,                 \* the lines given to serverless.cli.log
  outcome,              \* how the latest validate() ended
  passes                \* number of validate() passes made

inputs == <<functions, optFunction, optOut, verbose, keepOutputDirectory, individually,
            provider, customWebpack, fileExists, loadThrows, listing>>
vars == <<functions, optFunction, optOut, verbose, keepOutputDirectory, individually,
          provider, customWebpack, fileExists, loadThrows, configObject, listing,
          lib, webpackConfig, webpackOutputPath, multiCompile, entryFunctions,
          globbyCalls, requireCalls, removeCalls, logs, outcome, passes>>

\* serverless.config.servicePath
servicePath == <<"s">>

\* The name serverless.service.getAllFunctions() gives the i-th function.
FuncName(i) == <<"f", <<"1", "2", "3", "4", "5">>[i]>>

\* A line of serverless.cli.log: its kind and the two values it names.
LogLine(kind, a, b) == [kind |-> kind, a |-> a, b |-> b]

(***************************************************************************)
(* Entry resolution (validate.js lines 15-75).                             *)
(***************************************************************************)
preferredExtensions ==
  { <<".", "j", "s">>, <<".", "t", "s">>, <<".", "j", "s", "x">>, <<".", "t", "s", "x">> }

\* /(.*)\..*?$/.exec(handler): everything before the last '.', or no match.
getHandlerFile(handler) ==
  LET d == LastIndexOf(handler, ".")
  IN  IF d = 0 THEN None ELSE Some(Prefix(handler, d - 1))

\* !handlerFile: no match, or an empty base path.
Unparsable(handler) ==
  ~IsSome(getHandlerFile(handler)) \/ Val(getHandlerFile(handler)) = <<>>

\* globby.sync(`${fileName}.*`, {cwd: servicePath, nodir: true}): the files
\* of the service directory that start with fileName and a '.', in the order
\* the file system lists them.
Glob(fileName) ==
  LET at == PathRelative(fileName)
  IN  IF at \in DOMAIN listing
      THEN [i \in 1..Len(listing[at]) |-> fileName \o listing[at][i]]
      ELSE <<>>

\* The files of the listing with a preferred extension.
PreferredFiles(files) ==
  Filter(files, {f \in Range(files) : ExtName(f) \in preferredExtensions})

\* sortedFiles with the preferred files sorted the other way round.
SortedFilesReversed(files) == Uniq(Reverse(SortBySize(PreferredFiles(files))) \o files)

\* sortedFiles with the preferred files moved to the front but not sorted.
SortedFilesUnsorted(files) == Uniq(PreferredFiles(files) \o files)

\* _.uniq(_.concat(_.sortBy(_.filter(files, preferred), size), files))
SortedFiles(files) == Uniq(SortBySize(PreferredFiles(files)) \o files)

\* getEntryExtension: the extension of the first sorted file, the warning
\* it logs when several files match, or the fault when none does.
getEntryExtension(fileName) ==
  LET files == Glob(fileName)
      sortedFiles == SortedFiles(files)
  IN  IF files = <<>>
      THEN [fault |-> TRUE, ext |-> <<>>, log |-> <<>>]
      ELSE [fault |-> FALSE,
            ext |-> ExtName(First(sortedFiles)),
            log |-> IF Size(sortedFiles) > 1
                    THEN <<LogLine("moreThanOne", fileName, First(sortedFiles))>>
                    ELSE <<>>]

\* The position of key in the entries, 0 when absent.
KeyIndex(entries, key) ==
  LET hits == {i \in 1..Len(entries) : entries[i][1] = key}
  IN  IF hits = {} THEN 0 ELSE CHOOSE i \in hits : TRUE

\* A merge that adds the entry behind the others whatever its key.
MergeAppending(entries, key, value) == Append(entries, <<key, value>>)

\* _.merge(entries, {[key]: value}): a new key is added behind the others,
\* a known key keeps its place and takes the new value.
Merge(entries, key, value) ==
  LET i == KeyIndex(entries, key)
  IN  IF i = 0 THEN Append(entries, <<key, value>>)
      ELSE [entries EXCEPT ![i] = <<key, value>>]

\* The functions a pass resolves: the selected one, or all of them.
Resolved ==
  IF optFunction # 0 THEN <<optFunction>> ELSE [i \in 1..Len(functions) |-> i]

\* The state of the resolution loop before any function is looked at.
NoEntries == [entries |-> <<>>, calls |-> <<>>, logs |-> <<>>, fault |-> None]

\* getEntryForFunction for the function with index i, and the merge of its
\* entry: acc is the loop's state so far.
getEntryForFunction(acc, i) ==
  LET handler == functions[i]
      handlerFile == getHandlerFile(handler)
  IN  IF Unparsable(handler)
      THEN [acc EXCEPT !.logs = IF provider # "google"
                                THEN Append(@, LogLine("noEntry", FuncName(i), handler))
                                ELSE @]
      ELSE LET r == getEntryExtension(Val(handlerFile))
               called == [acc EXCEPT !.calls = Append(@, Val(handlerFile))]
           IN  IF r.fault
               THEN [called EXCEPT !.fault = Some(Val(handlerFile))]
               ELSE [called EXCEPT
                       !.logs = @ \o r.log,
                       !.entries = Merge(@, Val(handlerFile),
                                         <<".", "/">> \o Val(handlerFile) \o r.ext)]

\* The loop going on to the last function after a fault.
RECURSIVE ResolveEntriesToTheEnd(_, _)
ResolveEntriesToTheEnd(todo, acc) ==
  IF todo = <<>> THEN acc
  ELSE ResolveEntriesToTheEnd(Tail(todo), getEntryForFunction(acc, Head(todo)))

\* Lines 84-96: the loop over the functions to resolve; a fault thrown by
\* getEntryExtension ends it.
RECURSIVE ResolveEntries(_, _)
ResolveEntries(todo, acc) ==
  IF todo = <<>> \/ IsSome(acc.fault) THEN acc
  ELSE ResolveEntries(Tail(todo), getEntryForFunction(acc, Head(todo)))

(***************************************************************************)
(* The webpack configuration object and its defaults (lines 77-146).       *)
(***************************************************************************)
\* A JavaScript value is falsy when it is undefined or the empty string.
Falsy(o) == ~IsSome(o) \/ Val(o) = <<>>

\* The value of a configuration's entry field: a string, or a map from
\* entry keys to files (its keys in the order of the object).
EntryString(str) == [kind |-> "string", str |-> str, map |-> <<>>]
EntryObject(map) == [kind |-> "map", str |-> <<>>, map |-> map]

\* _.isEqual of an entry field with the resolved entries: both are objects
\* with the same keys and values, in whatever order.
IsEqual(entry, entries) == entry.kind = "map" /\ Range(entry.map) = Range(entries)

\* The entry field is truthy: present, and not the empty string.
EntryDeclared(cfg) ==
  IsSome(cfg.entry) /\ ~(Val(cfg.entry).kind = "string" /\ Val(cfg.entry).str = <<>>)

\* _.isEmpty(output): an object without properties.
IsEmptyOutput(out) ==
  ~IsSome(out.path) /\ ~IsSome(out.filename) /\ ~IsSome(out.libraryTarget)

DotWebpack == <<".", "w", "e", "b", "p", "a", "c", "k">>
Service == <<"s", "e", "r", "v", "i", "c", "e">>
DefaultConfigName ==
  <<"w", "e", "b", "p", "a", "c", "k", ".", "c", "o", "n", "f", "i", "g", ".", "j", "s">>
CustomConfigName == <<"c", ".", "j", "s">>

\* Lines 77-81: custom.webpack, or 'webpack.config.js'.
ConfigName == IF customWebpack = "file" THEN CustomConfigName ELSE DefaultConfigName

\* Line 104: the path the configuration file is looked up at.
webpackConfigFilePath == PathJoin(servicePath, ConfigName)

\* this.webpackConfig as a string, as the configuration object (held in
\* configObject, which validate changes in place) or as an array.
ConfigIsName(name) == [kind |-> "name", name |-> name, arr |-> <<>>]
ConfigIsObject == [kind |-> "object", name |-> <<>>, arr |-> <<>>]
ConfigIsArray(arr) == [kind |-> "array", name |-> <<>>, arr |-> arr]

\* Lines 117-125: the default context and target.
DefaultContextTarget(cfg) ==
  [cfg EXCEPT !.context = IF Falsy(@) THEN Some(servicePath) ELSE @,
              !.target = IF Falsy(@) THEN Some(<<"n", "o", "d", "e">>) ELSE @]

\* Lines 127-135: the default output.
DefaultOutput(cfg) ==
  IF ~IsSome(cfg.output) \/ IsEmptyOutput(Val(cfg.output))
  THEN [cfg EXCEPT !.output =
          Some([libraryTarget |-> Some(<<"c", "o", "m", "m", "o", "n", "j", "s">>),
                path |-> Some(PathJoin(servicePath, DotWebpack)),
                filename |-> Some(<<"[", "n", "a", "m", "e", "]", ".", "j", "s">>)])]
  ELSE cfg

\* The custom output path set as an output of its own.
CustomOutputPathAlone(cfg) ==
  IF ~Falsy(optOut)
  THEN [cfg EXCEPT !.output = Some([path |-> Some(PathJoin(servicePath, Val(optOut))),
                                    filename |-> None, libraryTarget |-> None])]
  ELSE cfg

\* Lines 137-140: the custom output path.
CustomOutputPath(cfg) ==
  IF ~Falsy(optOut)
  THEN [cfg EXCEPT !.output = Some([Val(@) EXCEPT !.path = Some(PathJoin(servicePath, Val(optOut)))])]
  ELSE cfg

\* The configuration after lines 117-140.
Prepared(cfg) == CustomOutputPath(DefaultOutput(DefaultContextTarget(cfg)))

\* output.path of a prepared configuration.
OutputPath(cfg) == Val(Val(cfg.output).path)

SetOutputPath(cfg, path) ==
  [cfg EXCEPT !.output = Some([Val(@) EXCEPT !.path = Some(path)])]

\* The removal made whatever keepOutputDirectory says.
RemovalsAlways(path) == <<path>>

\* Lines 142-145: the calls of fse.removeSync.
Removals(path) == IF ~keepOutputDirectory THEN <<path>> ELSE <<>>

\* Line 143: the line logged with the removal when options.verbose is set.
RemovalLogs(path) ==
  IF ~keepOutputDirectory /\ verbose THEN <<LogLine("removing", path, <<>>)>> ELSE <<>>

(***************************************************************************)
(* Individual packaging (lines 148-200).                                   *)
(***************************************************************************)
Letters == <<"a", "b", "c", "d", "e", "f", "g", "h", "i", "j", "k", "l", "m",
             "n", "o", "p", "q", "r", "s", "t", "u", "v", "w", "x", "y", "z">>
Capitals == <<"A", "B", "C", "D", "E", "F", "G", "H", "I", "J", "K", "L", "M",
              "N", "O", "P", "Q", "R", "S", "T", "U", "V", "W", "X", "Y", "Z">>

IsLetter(c) == c \in Range(Letters) \/ c \in Range(Capitals)

\* _.upperFirst of a word of lower-case letters.
UpperFirst(w) ==
  IF w = <<>> \/ w[1] \notin Range(Letters) THEN w
  ELSE <<Capitals[CHOOSE i \in 1..Len(Letters) : Letters[i] = w[1]]>> \o Tail(w)

\* The words of a string of lower-case letters, '.' and '/': its maximal
\* runs of letters.
RECURSIVE WordsOf(_, _, _)
WordsOf(s, word, acc) ==
  IF s = <<>> THEN (IF word = <<>> THEN acc ELSE Append(acc, word))
  ELSE IF IsLetter(Head(s)) THEN WordsOf(Tail(s), Append(word, Head(s)), acc)
       ELSE WordsOf(Tail(s), <<>>, IF word = <<>> THEN acc ELSE Append(acc, word))

RECURSIVE CamelWords(_, _)
CamelWords(words, first) ==
  IF words = <<>> THEN <<>>
  ELSE (IF first THEN Head(words) ELSE UpperFirst(Head(words)))
         \o CamelWords(Tail(words), FALSE)

\* _.camelCase of an entry key made of lower-case letters, '.' and '/'.
CamelCase(key) == CamelWords(WordsOf(key, <<>>, <<>>), TRUE)

\* A regular expression made of the characters of ext matches the end of
\* str: '.' stands for any character, a letter for itself.
MatchesAtEnd(str, ext) ==
  /\ Len(ext) <= Len(str)
  /\ \A i \in 1..Len(ext) :
       ext[i] = "." \/ ext[i] = str[Len(str) - Len(ext) + i]

\* Line 176: _.replace(entry, new RegExp(`${path.extname(entry)}$`), '')
StripExtension(entry) ==
  LET ext == ExtName(entry)
  IN  IF MatchesAtEnd(entry, ext) THEN Prefix(entry, Len(entry) - Len(ext)) ELSE entry

\* Lines 175-176: the entryFile of an entry value.
EntryFile(value) == StripExtension(PathRelative(value))

\* Line 165 throws a TypeError when a handler has no '.': path.relative is
\* given undefined.
LookupThrows == \E i \in 1..Len(functions) : ~IsSome(getHandlerFile(functions[i]))

\* Lines 160-172: one object per declared function; its entry property is
\* set later.
allEntryFunctions ==
  [i \in 1..Len(functions) |->
     [handlerFile |-> Some(PathRelative(Val(getHandlerFile(functions[i])))),
      funcName |-> Some(FuncName(i)),
      entry |-> None]]

\* An empty object, pushed when no function matches an entry.
EmptyBinding == [handlerFile |-> None, funcName |-> None, entry |-> None]

\* Lines 174-190 for one entry {key: value}: the objects of the functions
\* whose handlerFile is the entryFile (or a new empty object) get the entry
\* and are returned.  acc.objects are the objects of allEntryFunctions,
\* acc.out the references returned so far: <<"ref", i>> to the object of
\* function i, or <<"own", object>> for an empty object of its own.
BindEntry(acc, e) ==
  LET entryFile == EntryFile(e[2])
      found == {i \in 1..Len(acc.objects) : acc.objects[i].handlerFile = Some(entryFile)}
      entry == Some([key |-> e[1], value |-> e[2]])
      refs == Filter([i \in 1..Len(acc.objects) |-> <<"ref", i>>],
                     {<<"ref", i>> : i \in found})
  IN  IF found = {}
      THEN [acc EXCEPT !.out = Append(@, <<"own", [EmptyBinding EXCEPT !.entry = entry]>>)]
      ELSE [objects |-> [i \in 1..Len(acc.objects) |->
                           IF i \in found THEN [acc.objects[i] EXCEPT !.entry = entry]
                           ELSE acc.objects[i]],
            out |-> acc.out \o refs]

RECURSIVE BindEntries(_, _)
BindEntries(entries, acc) ==
  IF entries = <<>> THEN acc
  ELSE BindEntries(Tail(entries), BindEntry(acc, Head(entries)))

\* this.entryFunctions (lines 174-190): the returned references, read once
\* every entry has been handled.
EntryFunctionsOf(entries) ==
  LET acc == BindEntries(entries, [objects |-> allEntryFunctions, out |-> <<>>])
  IN  [k \in 1..Len(acc.out) |->
         IF acc.out[k][1] = "ref" THEN acc.objects[acc.out[k][2]] ELSE acc.out[k][2]]

\* Line 197: the name of the directory of a binding.
CompileName(entryFunc) ==
  IF ~Falsy(entryFunc.funcName) THEN Val(entryFunc.funcName)
  ELSE CamelCase(Val(entryFunc.entry).key)

\* Lines 192-200: the configuration of one binding, a deep copy of cfg.
FanOutOne(cfg, entryFunc) ==
  SetOutputPath(
    [cfg EXCEPT !.entry = Some(EntryObject(<<<<Val(entryFunc.entry).key,
                                                Val(entryFunc.entry).value>>>>))],
    PathJoin(OutputPath(cfg), CompileName(entryFunc)))

FanOut(cfg, bindings) == [k \in 1..Len(bindings) |-> FanOutOne(cfg, bindings[k])]

(***************************************************************************)
(* validate() (lines 23-206).                                              *)
(***************************************************************************)
Fulfilled == [status |-> "fulfilled", fault |-> "none", arg |-> <<>>]
Rejected(fault, arg) == [status |-> "rejected", fault |-> fault, arg |-> arg]
Thrown(fault, arg) == [status |-> "thrown", fault |-> fault, arg |-> arg]

\* this.options, as lib.options exposes it.
Options == [function |-> optFunction, out |-> optOut, verbose |-> verbose]

\* Lines 98-101: lib after the entries are exposed.
Exposed(entries) ==
  [serverless |-> Some("serverless"), options |-> Some(Options), entries |-> Some(entries)]

\* The single configuration given the resolved entries when it declares none.
FinalizeSettingEntry(cfg, entries) ==
  SetOutputPath([cfg EXCEPT !.entry = IF IsSome(@) THEN @ ELSE Some(EntryObject(entries))],
                PathJoin(OutputPath(cfg), Service))

\* Lines 201-203: the single configuration, 'service' appended in place.
Finalize(cfg, entries) == SetOutputPath(cfg, PathJoin(OutputPath(cfg), Service))

\* The plugin state when a pass starts: line 77 has set this.webpackConfig,
\* nothing has been called yet.
Start ==
  [lib |-> lib,
   webpackConfig |-> IF customWebpack = "inline" THEN ConfigIsObject
                     ELSE ConfigIsName(ConfigName),
   configObject |-> configObject,
   webpackOutputPath |-> webpackOutputPath,
   multiCompile |-> multiCompile,
   entryFunctions |-> entryFunctions,
   globbyCalls |-> <<>>,
   requireCalls |-> <<>>,
   removeCalls |-> <<>>,
   logs |-> <<>>,
   outcome |-> Fulfilled]

\* Lines 201-205: a single configuration.
Single(s, entries) ==
  [s EXCEPT !.configObject = Finalize(@, entries), !.outcome = Fulfilled]

\* Individual packaging with the bindings exposed before the entry check.
IndividualBindingFirst(s, entries) ==
  LET cfg == s.configObject
      t == [s EXCEPT !.multiCompile = Some(TRUE),
                     !.logs = IF verbose THEN Append(@, LogLine("multiCompile", <<>>, <<>>)) ELSE @]
      bindings == EntryFunctionsOf(entries)
  IN  IF LookupThrows
      THEN [t EXCEPT !.outcome = Thrown("TypeError", <<>>)]
      ELSE IF EntryDeclared(cfg) /\ ~IsEqual(Val(cfg.entry), entries)
      THEN [t EXCEPT !.entryFunctions = Some(bindings),
                     !.outcome = Rejected("ConflictingEntry", <<>>)]
      ELSE [t EXCEPT !.entryFunctions = Some(bindings),
                     !.webpackConfig = ConfigIsArray(FanOut(cfg, bindings)),
                     !.outcome = Fulfilled]

\* Lines 149-200: one configuration per binding.
Individual(s, entries) ==
  LET cfg == s.configObject
      t == [s EXCEPT !.multiCompile = Some(TRUE),
                     !.logs = IF verbose THEN Append(@, LogLine("multiCompile", <<>>, <<>>)) ELSE @]
      bindings == EntryFunctionsOf(entries)
  IN  IF EntryDeclared(cfg) /\ ~IsEqual(Val(cfg.entry), entries)
      THEN [t EXCEPT !.outcome = Rejected("ConflictingEntry", <<>>)]
      ELSE IF LookupThrows
      THEN [t EXCEPT !.outcome = Thrown("TypeError", <<>>)]
      ELSE [t EXCEPT !.entryFunctions = Some(bindings),
                     !.webpackConfig = ConfigIsArray(FanOut(cfg, bindings)),
                     !.outcome = Fulfilled]

\* Lines 117-146: defaults, custom output path, removal of the output
\* directory, webpackOutputPath.
Configure(s) ==
  LET cfg == Prepared(s.configObject)
  IN  [s EXCEPT !.webpackConfig = ConfigIsObject,
                !.configObject = cfg,
                !.logs = @ \o RemovalLogs(OutputPath(cfg)),
                !.removeCalls = Removals(OutputPath(cfg)),
                !.webpackOutputPath = Some(OutputPath(cfg))]

\* The error require() throws on a configuration file that does not load.
LoadError == <<"e", "r", "r">>

\* The loading with require() called before the file is looked up.
LoadRequiringFirst(s) ==
  IF customWebpack = "inline" THEN s
  ELSE LET required == [s EXCEPT !.requireCalls = Append(@, webpackConfigFilePath)]
       IN  IF ~fileExists \/ loadThrows
           THEN [required EXCEPT
                   !.logs = Append(@, LogLine("couldNotLoad", webpackConfigFilePath, <<>>)),
                   !.outcome = Rejected("ConfigLoad", LoadError)]
           ELSE required

\* Lines 103-115: the configuration file is looked up and loaded when
\* this.webpackConfig is a string; a file that is not there is not required,
\* the error of a file that does not load is logged and handed on.
Load(s) ==
  IF customWebpack = "inline" THEN s
  ELSE IF ~fileExists
  THEN [s EXCEPT !.outcome = Thrown("ConfigNotFound", webpackConfigFilePath)]
  ELSE LET required == [s EXCEPT !.requireCalls = Append(@, webpackConfigFilePath)]
       IN  IF loadThrows
           THEN [required EXCEPT
                   !.logs = Append(@, LogLine("couldNotLoad", webpackConfigFilePath, <<>>)),
                   !.outcome = Rejected("ConfigLoad", LoadError)]
           ELSE required

\* The whole pass.
Pass ==
  LET r == ResolveEntries(Resolved, NoEntries)
      resolved == [Start EXCEPT !.globbyCalls = r.calls, !.logs = r.logs]
  IN  IF IsSome(r.fault)
      THEN [resolved EXCEPT !.outcome = Thrown("NoCandidate", Val(r.fault))]
      ELSE LET loaded == Load([resolved EXCEPT !.lib = Exposed(r.entries)])
           IN  IF loaded.outcome.status # "fulfilled" THEN loaded
               ELSE IF individually THEN Individual(Configure(loaded), r.entries)
               ELSE Single(Configure(loaded), r.entries)

Validate ==
  /\ passes < MaxPasses
  /\ passes' = passes + 1
  /\ \E s \in {Pass} :
         /\ lib' = s.lib
         /\ webpackConfig' = s.webpackConfig
         /\ configObject' = s.configObject
         /\ webpackOutputPath' = s.webpackOutputPath
         /\ multiCompile' = s.multiCompile
         /\ entryFunctions' = s.entryFunctions
         /\ globbyCalls' = s.globbyCalls
         /\ requireCalls' = s.requireCalls
         /\ removeCalls' = s.removeCalls
         /\ logs' = s.logs
         /\ outcome' = s.outcome
  /\ UNCHANGED inputs

Next == Validate

(***************************************************************************)
(* Initial states: the service declarations, options and file systems the  *)
(* passes are run on.                                                      *)
(***************************************************************************)
\* Handlers: 'a.h', './a.h' (the same file spelled differently), 'b/c.h',
\* 'h' (no '.') and '.h' (an empty base path).
HandlerA == <<"a", ".", "h">>
HandlerDotA == <<".", "/", "a", ".", "h">>
HandlerBC == <<"b", "/", "c", ".", "h">>
HandlerNoDot == <<"h">>
HandlerNoBase == <<".", "h">>
Handlers == {HandlerA, HandlerDotA, HandlerBC, HandlerNoDot, HandlerNoBase}

BaseA == <<"a">>
BaseBC == <<"b", "/", "c">>

\* What may follow a base path in a file name.
Js == <<".", "j", "s">>
Ts == <<".", "t", "s">>
Tsx == <<".", "t", "s", "x">>
Json == <<".", "j", "s", "o", "n">>
TestJs == <<".", "t", "e", "s", "t", ".", "j", "s">>
Doc == <<".", "d", "o", "c">>
Suffixes == {Js, Ts, Tsx, Json, TestJs, Doc}

\* The sequences of at most n elements of S.
SeqsUpTo(S, n) == UNION {[1..k -> S] : k \in 0..n}

\* The listings of at most n different files.
Listings(n) == {l \in SeqsUpTo(Suffixes, n) : \A i, j \in 1..Len(l) : i # j => l[i] # l[j]}

\* Configuration objects as a service or a configuration file declares them.
Config(entry, context, target, devtool, output) ==
  [entry |-> entry, context |-> context, target |-> target, devtool |-> devtool,
   output |-> output]
Output(path, filename, libraryTarget) ==
  [path |-> path, filename |-> filename, libraryTarget |-> libraryTarget]

BareConfig == Config(None, None, None, None, None)

\* The entry declarations a configuration may carry for the service at hand:
\* none, a string, a map of its own, or the resolved entries themselves
\* (written in the opposite order).
EntryChoices ==
  { None,
    Some(EntryString(<<"t">>)),
    Some(EntryObject(<<<<<<"m">>, <<".", "/", "m", ".", "j", "s">>>>>>)),
    Some(EntryObject(Reverse(ResolveEntries(Resolved, NoEntries).entries))) }

\* The other fields: nothing, an empty output, an output path alone, or
\* every field set.
ShapeChoices ==
  { BareConfig,
    Config(None, None, None, None, Some(Output(None, None, None))),
    Config(None, None, None, None, Some(Output(Some(<<"o">>), None, None))),
    Config(None, Some(<<"x">>), Some(<<"w", "e", "b">>), Some(<<"m", "a", "p">>),
           Some(Output(Some(<<"o">>), Some(<<"n">>), Some(<<"u">>)))) }

InitPlugin ==
  /\ lib = [serverless |-> None, options |-> None, entries |-> None]
  /\ webpackConfig = [kind |-> "unset", name |-> <<>>, arr |-> <<>>]
  /\ webpackOutputPath = None
  /\ multiCompile = None
  /\ entryFunctions = None
  /\ globbyCalls = <<>>
  /\ requireCalls = <<>>
  /\ removeCalls = <<>>
  /\ logs = <<>>
  /\ outcome = [status |-> "none", fault |-> "none", arg |-> <<>>]
  /\ passes = 0

\* One function with handler 'a.h' and any listing of the files 'a.*'.
InitResolver ==
  /\ functions = <<HandlerA>>
  /\ optFunction \in {0, 1}
  /\ optOut = None
  /\ verbose = FALSE
  /\ keepOutputDirectory = FALSE
  /\ individually = FALSE
  /\ provider = "aws"
  /\ customWebpack = "inline"
  /\ fileExists = FALSE
  /\ loadThrows = FALSE
  /\ configObject = BareConfig
  /\ listing \in {[b \in {BaseA} |-> l] : l \in Listings(MaxFiles)}
  /\ InitPlugin

\* Any declaration of at most MaxFuncs functions, packaged together or
\* individually, with an inline configuration.
Init ==
  /\ functions \in SeqsUpTo(Handlers, MaxFuncs)
  /\ optFunction \in 0..Len(functions)
  /\ optOut = None
  /\ verbose = FALSE
  /\ keepOutputDirectory \in BOOLEAN
  /\ individually \in BOOLEAN
  /\ provider \in {"aws", "google"}
  /\ customWebpack = "inline"
  /\ fileExists = FALSE
  /\ loadThrows = FALSE
  /\ listing \in [{BaseA, BaseBC} -> {<<>>, <<Js>>, <<Ts, Js>>}]
  /\ configObject = BareConfig
  /\ InitPlugin

\* Any way of giving the configuration (inline, by file name, by default
\* name), any options, on services whose handlers are 'a.h' or 'h'.
InitConfig ==
  /\ functions \in SeqsUpTo({HandlerA, HandlerNoDot}, MaxFuncs)
  /\ optFunction \in 0..Len(functions)
  /\ \E o \in {<<None, FALSE>>, <<None, TRUE>>, <<Some(<<"d">>), FALSE>>} :
       optOut = o[1] /\ verbose = o[2]
  /\ keepOutputDirectory \in BOOLEAN
  /\ individually \in BOOLEAN
  /\ provider = "aws"
  /\ listing \in [{BaseA} -> {<<>>, <<Js>>}]
  /\ \/ /\ customWebpack = "inline"
        /\ fileExists = FALSE
        /\ loadThrows = FALSE
        /\ \E e \in EntryChoices, c \in ShapeChoices : configObject = [c EXCEPT !.entry = e]
     \/ /\ customWebpack \in {"file", "absent"}
        /\ fileExists \in BOOLEAN
        /\ loadThrows = fileExists
        /\ configObject = BareConfig
     \/ /\ customWebpack = "file"
        /\ fileExists = TRUE
        /\ loadThrows = FALSE
        /\ \E e \in EntryChoices, c \in ShapeChoices : configObject = [c EXCEPT !.entry = e]
     \/ /\ customWebpack = "absent"
        /\ fileExists = TRUE
        /\ loadThrows = FALSE
        /\ configObject = BareConfig
  /\ InitPlugin

Spec == Init /\ [][Next]_vars
SpecResolver == InitResolver /\ [][Next]_vars
SpecConfig == InitConfig /\ [][Next]_vars

(***************************************************************************)
(* Properties of the candidate resolver, on one function with handler      *)
(* 'a.h' (SpecResolver).                                                   *)
(***************************************************************************)
\* The candidate listing of the base path 'a'.
CandidatesA == Glob(BaseA)

\* A pass has been made and it resolved the entries.
ResolvedA == passes >= 1 /\ IsSome(lib.entries) /\ Len(Val(lib.entries)) = 1

\* The extension the pass gave the entry of 'a': what follows './a' in the
\* entry value.
ExtensionA == Suffix(Val(lib.entries)[1][2], Len(<<".", "/">> \o BaseA) + 1)

\* C1 as stated: whenever the candidates of a base path are exactly b.js and
\* b.ts, the resolved extension is '.js', whatever the order of the listing.
C1_JsWhateverTheOrder ==
  (ResolvedA /\ Range(listing[BaseA]) = {Js, Ts}) => ExtensionA = Js

\* C1 as amended: when the candidates are exactly b.js and b.ts, the resolved
\* extension is that of the candidate listed first: '.js' for the listing
\* [b.js, b.ts] and '.ts' for the listing [b.ts, b.js].
C1_FirstListedOfJsAndTs ==
  (passes >= 1 /\ Range(listing[BaseA]) = {Js, Ts}) =>
    /\ ResolvedA
    /\ Val(lib.entries)[1][1] = BaseA
    /\ ExtensionA = listing[BaseA][1]

C1_Witness ==
  /\ ResolvedA
  /\ listing[BaseA] = <<Ts, Js>>
  /\ Val(lib.entries) = <<<<BaseA, <<".", "/", "a", ".", "t", "s">>>>>>

\* The orders in which the listing service may return the files of l.
Permutations(l) ==
  {p \in [1..Len(l) -> Range(l)] : \A i, j \in 1..Len(l) : i # j => p[i] # p[j]}

\* C2: for a fixed non-empty set of candidates the resolved extension is the
\* same for every order in which the listing service may return the set.
C2_SameForEveryOrder ==
  (ResolvedA /\ CandidatesA # <<>>) =>
    \A p \in Permutations(CandidatesA) : ExtName(First(SortedFiles(p))) = ExtensionA

\* The winner as C3 describes it: among the candidates with a preferred
\* extension and of minimal length the one listed first, or the first
\* candidate when none has a preferred extension.
Winner(l) ==
  LET pref == {i \in 1..Len(l) : ExtName(l[i]) \in preferredExtensions}
  IN  IF pref = {} THEN l[1]
      ELSE l[CHOOSE i \in pref :
               \A j \in pref : Len(l[i]) < Len(l[j]) \/ (Len(l[i]) = Len(l[j]) /\ i <= j)]

\* C3: for every non-empty listing the pass resolves, the entry is
\* {b: './' + b + extension of the winner}, and the warning logged when
\* several candidates match names that winner.
C3_WinnerIsFirstShortestPreferred ==
  (passes >= 1 /\ CandidatesA # <<>>) =>
    /\ outcome.status = "fulfilled"
    /\ lib.entries = Some(<<<<BaseA, <<".", "/">> \o BaseA \o ExtName(Winner(CandidatesA))>>>>)
    /\ logs = IF Len(CandidatesA) > 1
              THEN <<LogLine("moreThanOne", BaseA, Winner(CandidatesA))>>
              ELSE <<>>

\* The listing [a.doc, a.json, a.test.js, a.ts, a.js] has given {a: './a.ts'}.
C3_Witness ==
  /\ passes >= 1
  /\ listing[BaseA] = <<Doc, Json, TestJs, Ts, Js>>
  /\ lib.entries = Some(<<<<BaseA, <<".", "/", "a", ".", "t", "s">>>>>>)
  /\ logs = <<LogLine("moreThanOne", BaseA, <<"a", ".", "t", "s">>)>>

(***************************************************************************)
(* Properties of a pass.                                                   *)
(***************************************************************************)
\* The configurations this.webpackConfig holds.
Configs ==
  IF webpackConfig.kind = "array" THEN webpackConfig.arr
  ELSE IF webpackConfig.kind = "object" THEN <<configObject>>
  ELSE <<>>

\* C4 as stated: a fulfilled pass in single-configuration mode leaves one
\* configuration, and when the raw configuration declared no entry its entry
\* is the merged EntryMap.
C4_EntryIsTheEntryMap ==
  [][(~individually /\ outcome'.status = "fulfilled" /\ ~IsSome(configObject.entry)) =>
       /\ webpackConfig'.kind = "object"
       /\ configObject'.entry = Some(EntryObject(Val(lib'.entries)))]_vars

\* C4 as amended: a fulfilled pass in single-configuration mode leaves
\* exactly one configuration, whose entry field is as the raw configuration
\* declared it: absent when it declared none (the merged EntryMap is only
\* published as lib.entries), unchanged when it declared one.
C4_EntryLeftAsDeclared ==
  [][(~individually /\ outcome'.status = "fulfilled") =>
       /\ webpackConfig'.kind = "object"
       /\ configObject'.entry = configObject.entry
       /\ IsSome(lib'.entries)]_vars

\* A fulfilled single-configuration pass with a non-empty EntryMap and a
\* configuration that still has no entry.
C4_Witness ==
  /\ passes >= 1
  /\ ~individually
  /\ outcome.status = "fulfilled"
  /\ webpackConfig.kind = "object"
  /\ ~IsSome(configObject.entry)
  /\ IsSome(lib.entries) /\ Val(lib.entries) # <<>>

\* The functions a pass resolves whose handler has a base path, and their
\* base paths, in declaration order.
ParsableResolved ==
  Filter(Resolved, {i \in Range(Resolved) : ~Unparsable(functions[i])})
ParsableBases ==
  [k \in 1..Len(ParsableResolved) |-> Val(getHandlerFile(functions[ParsableResolved[k]]))]

\* C5: with individual packaging, no selected function and N functions with
\* N pairwise distinct base paths, a fulfilled pass leaves N configurations
\* in declaration order; the i-th has the entry of function i alone, the
\* output path join(pre-fan-out output path, name of function i) and the
\* other fields of the base configuration.
C5_OneConfigurationPerFunction ==
  (/\ passes >= 1 /\ outcome.status = "fulfilled" /\ individually /\ optFunction = 0
   /\ \A i \in 1..Len(functions) : ~Unparsable(functions[i])
   /\ \A i, j \in 1..Len(functions) :
        i # j => getHandlerFile(functions[i]) # getHandlerFile(functions[j]))
  =>
   /\ webpackConfig.kind = "array"
   /\ Len(webpackConfig.arr) = Len(functions)
   /\ \A i \in 1..Len(functions) :
        LET c == webpackConfig.arr[i]
            key == Val(getHandlerFile(functions[i]))
        IN  /\ \E e \in Range(Val(lib.entries)) :
                 e[1] = key /\ c.entry = Some(EntryObject(<<e>>))
            /\ Val(c.output).path = Some(PathJoin(Val(webpackOutputPath), FuncName(i)))
            /\ c.devtool = configObject.devtool
            /\ c.context = configObject.context
            /\ c.target = configObject.target
            /\ Val(c.output).libraryTarget = Val(configObject.output).libraryTarget
            /\ Val(c.output).filename = Val(configObject.output).filename

\* C6: with individual packaging, a pass that gets to the entry check is
\* rejected ('must be automatically resolved') exactly when the loaded
\* configuration declares an entry that is not equal to the EntryMap, and
\* otherwise is fulfilled with the fan-out.
C6_RejectedExactlyOnConflict ==
  (/\ passes >= 1 /\ individually
   /\ outcome.fault \notin {"NoCandidate", "ConfigNotFound", "ConfigLoad"})
  =>
   IF IsSome(configObject.entry) /\ ~IsEqual(Val(configObject.entry), Val(lib.entries))
   THEN outcome = Rejected("ConflictingEntry", <<>>)
   ELSE outcome.status = "fulfilled" /\ webpackConfig.kind = "array"

\* The lines of the log of the given kind.
LogCount(kind) == Cardinality({i \in 1..Len(logs) : logs[i].kind = kind})

\* C7: a pass is only ended by a fatal fault, in either packaging mode; a
\* resolved function without a base path gives no entry and no candidate
\* listing, and its warning is logged unless the provider is 'google'.
C7_NonFatalNeverAborts ==
  passes >= 1 =>
    /\ outcome.fault \in {"none", "NoCandidate", "ConfigNotFound", "ConfigLoad",
                          "ConflictingEntry"}
    /\ outcome.fault # "NoCandidate" =>
         /\ globbyCalls = ParsableBases
         /\ {e[1] : e \in Range(Val(lib.entries))} = Range(ParsableBases)
         /\ LogCount("noEntry") =
              IF provider = "google" THEN 0 ELSE Len(Resolved) - Len(ParsableResolved)

\* The first base path a pass lists that has no candidate, 0 when all have.
FirstEmpty ==
  LET empty == {k \in 1..Len(ParsableBases) : Glob(ParsableBases[k]) = <<>>}
  IN  IF empty = {} THEN 0 ELSE CHOOSE k \in empty : \A j \in empty : k <= j

C9_NothingCommittedOnFault ==
  [][outcome'.fault \in {"NoCandidate", "ConfigNotFound", "ConfigLoad", "ConflictingEntry"} =>
       /\ lib' = lib
       /\ UNCHANGED <<multiCompile, webpackOutputPath, entryFunctions>>]_vars

\* C9 as amended: what a pass ended by a fatal fault has committed depends
\* on the stage of the fault.  A no-candidate fault leaves lib and the
\* exposed results as they were.  A configuration that is not found or
\* fails to load ends the pass after lib has been written (lib is exposed
\* before the configuration is loaded) and before anything is removed, with
\* multiCompile, webpackOutputPath and entryFunctions as they were.  A
\* conflicting entry ends it after lib, webpackOutputPath and multiCompile
\* have been written, with entryFunctions as it was and the configuration
\* not fanned out.
C9_CommittedByStage ==
  [][/\ outcome'.fault = "NoCandidate" =>
          /\ lib' = lib
          /\ UNCHANGED <<multiCompile, webpackOutputPath, entryFunctions>>
     /\ outcome'.fault \in {"ConfigNotFound", "ConfigLoad"} =>
          /\ lib'.serverless = Some("serverless")
          /\ lib'.options = Some(Options)
          /\ IsSome(lib'.entries)
          /\ removeCalls' = <<>>
          /\ webpackConfig'.kind = "name"
          /\ UNCHANGED <<multiCompile, webpackOutputPath, entryFunctions>>
     /\ outcome'.fault = "ConflictingEntry" =>
          /\ lib'.serverless = Some("serverless")
          /\ lib'.options = Some(Options)
          /\ IsSome(lib'.entries)
          /\ multiCompile' = Some(TRUE)
          /\ webpackOutputPath' = Some(OutputPath(configObject'))
          /\ webpackConfig'.kind = "object"
          /\ UNCHANGED entryFunctions]_vars

\* The configuration file was not found, and lib.entries holds the entry
\* of 'a' all the same.
C9_Witness ==
  /\ passes = 1
  /\ outcome.fault = "ConfigNotFound"
  /\ lib.entries = Some(<<<<BaseA, <<".", "/", "a", ".", "j", "s">>>>>>)
  /\ ~IsSome(multiCompile) /\ ~IsSome(webpackOutputPath) /\ ~IsSome(entryFunctions)

\* The output path of a pass before it is finalized: the `out` override
\* under the service root, else the path the configuration has when it has
\* a non-empty output, else '.webpack' under the service root.
PreFinalizationPath ==
  IF IsSome(optOut) THEN PathJoin(servicePath, Val(optOut))
  ELSE IF IsSome(configObject.output) /\ ~IsEmptyOutput(Val(configObject.output))
       THEN Val(Val(configObject.output).path)
       ELSE PathJoin(servicePath, DotWebpack)

\* C10: no pass removes more than once; a pass that gets to the cleanup
\* removes nothing when keepOutputDirectory is set and otherwise removes
\* exactly the pre-finalization output path of that pass, which is the
\* output path of none of the configurations the pass produces.
C10_RemovalOncePreFinalization ==
  [][/\ Len(removeCalls') <= 1
     /\ outcome'.fault \notin {"NoCandidate", "ConfigNotFound", "ConfigLoad"} =>
          /\ removeCalls' = IF keepOutputDirectory THEN <<>> ELSE <<PreFinalizationPath>>
          /\ webpackOutputPath' = Some(PreFinalizationPath)
          /\ outcome'.status = "fulfilled" =>
               LET produced == IF webpackConfig'.kind = "array" THEN webpackConfig'.arr
                               ELSE <<configObject'>>
               IN  \A k \in 1..Len(produced) :
                     Val(produced[k].output).path # Some(PreFinalizationPath)]_vars

\* A fulfilled pass with an `out` override removed the overridden path and
\* then appended 'service' to it.
C10_Witness ==
  /\ passes >= 1 /\ outcome.status = "fulfilled" /\ ~individually
  /\ ~keepOutputDirectory /\ IsSome(optOut)
  /\ removeCalls = <<PathJoin(servicePath, Val(optOut))>>
  /\ Val(configObject.output).path = Some(PathJoin(PathJoin(servicePath, Val(optOut)), Service))

\* C11: a fulfilled pass in single-configuration mode leaves output.path =
\* join(P, 'service') and webpackOutputPath = P, where P is the `out`
\* override under the service root when one is given, else the output path
\* of the configuration when it has a non-empty output, else '.webpack'
\* under the service root; the file name and the library target of a
\* non-empty output are as they were.
C11_SingleOutputPath ==
  [][(~individually /\ outcome'.status = "fulfilled") =>
       /\ webpackConfig'.kind = "object"
       /\ Val(configObject'.output).path = Some(PathJoin(PreFinalizationPath, Service))
       /\ webpackOutputPath' = Some(PreFinalizationPath)
       /\ (IsSome(configObject.output) /\ ~IsEmptyOutput(Val(configObject.output))) =>
            /\ Val(configObject'.output).filename = Val(configObject.output).filename
            /\ Val(configObject'.output).libraryTarget = Val(configObject.output).libraryTarget]_vars

\* The override 'd' took the place of the declared output path 'o': the
\* first pass left 's/d/service', and the declared file name and library
\* target.
C11_Witness ==
  /\ passes = 1 /\ ~individually /\ outcome.status = "fulfilled"
  /\ optOut = Some(<<"d">>)
  /\ webpackOutputPath = Some(<<"s", "/", "d">>)
  /\ configObject.output =
       Some(Output(Some(<<"s", "/", "d", "/">> \o Service), Some(<<"n">>), Some(<<"u">>)))

\* The distinct base paths of the functions a pass resolves, in the order
\* of their first declaration.
DistinctBases == Uniq(ParsableBases)

\* C12: the entries a pass publishes are one entry per distinct base path of
\* the functions it resolves (the selected function, or all of them), each
\* base -> './' + base + extension of the winner among its candidates;
\* the candidates are listed once per resolved function with a base path,
\* and the only warnings of more than one match are those of functions
\* whose listing has several candidates.
C12_OneEntryPerBasePath ==
  (passes >= 1 /\ outcome.fault # "NoCandidate") =>
    /\ lib.entries =
         Some([k \in 1..Len(DistinctBases) |->
                 <<DistinctBases[k],
                   <<".", "/">> \o DistinctBases[k] \o ExtName(Winner(Glob(DistinctBases[k])))>>])
    /\ globbyCalls = ParsableBases
    /\ LogCount("moreThanOne") =
         Cardinality({k \in 1..Len(ParsableBases) : Len(Glob(ParsableBases[k])) > 1})

\* Two functions with the handler 'a.h': one entry, two listings of 'a.*',
\* nothing logged, and the pass fulfilled.
C12_Witness ==
  /\ passes >= 1
  /\ functions = <<HandlerA, HandlerA>> /\ optFunction = 0
  /\ lib.entries = Some(<<<<BaseA, <<".", "/", "a", ".", "j", "s">>>>>>)
  /\ globbyCalls = <<BaseA, BaseA>>
  /\ logs = <<>>
  /\ outcome.status = "fulfilled"

\* The path of the configuration file as C13 spells it: the name the
\* service gives, or 'webpack.config.js', under the service root.
ExpectedConfigPath ==
  servicePath \o <<"/">> \o
    (IF customWebpack = "file" THEN <<"c", ".", "j", "s">>
     ELSE <<"w", "e", "b", "p", "a", "c", "k", ".", "c", "o", "n", "f", "i", "g", ".", "j", "s">>)

\* C13: in a pass that resolved its entries and has its configuration by
\* file name (given or default), a file that does not exist makes the pass
\* throw without require() being called; a file that exists and does not
\* load is required once, the line 'Could not load webpack config' naming
\* its path is the last one logged and the pass is rejected with the error
\* require() threw; in both cases the configuration object is not changed,
\* nothing is removed and no result is set.  No other pass ends that way.
C13_ConfigurationLoading ==
  [][IF customWebpack # "inline" /\ FirstEmpty = 0 /\ (~fileExists \/ loadThrows)
     THEN /\ IF ~fileExists
             THEN /\ outcome' = Thrown("ConfigNotFound", ExpectedConfigPath)
                  /\ requireCalls' = <<>>
                  /\ LogCount("couldNotLoad")' = 0
             ELSE /\ outcome' = Rejected("ConfigLoad", LoadError)
                  /\ requireCalls' = <<ExpectedConfigPath>>
                  /\ logs' # <<>>
                  /\ logs'[Len(logs')] = LogLine("couldNotLoad", ExpectedConfigPath, <<>>)
                  /\ LogCount("couldNotLoad")' = 1
          /\ configObject' = configObject
          /\ webpackConfig'.kind = "name"
          /\ removeCalls' = <<>>
          /\ UNCHANGED <<webpackOutputPath, multiCompile, entryFunctions>>
     ELSE /\ outcome'.fault \notin {"ConfigNotFound", "ConfigLoad"}
          /\ LogCount("couldNotLoad")' = 0]_vars

\* The file 's/webpack.config.js' exists and does not load: required once,
\* logged, rejected, nothing removed.
C13_Witness ==
  /\ passes >= 1
  /\ customWebpack = "absent" /\ fileExists /\ loadThrows
  /\ outcome = Rejected("ConfigLoad", LoadError)
  /\ requireCalls = <<servicePath \o <<"/">> \o DefaultConfigName>>
  /\ logs = <<LogLine("couldNotLoad", servicePath \o <<"/">> \o DefaultConfigName, <<>>)>>
  /\ removeCalls = <<>> /\ ~IsSome(webpackOutputPath)

\* The output paths of the configurations this.webpackConfig holds after a
\* fulfilled pass.
OutputPaths == [k \in 1..Len(Configs) |-> Val(Configs[k].output).path]

\* C14: on an unchanged service declaration and unchanged options, a
\* fulfilled pass that follows a fulfilled pass yields the webpackOutputPath,
\* the removal and the final output paths of the pass before it (and so of
\* the first pass), and multiCompile and entryFunctions are set exactly when
\* the pass packaged individually.
C14_EveryPassAsTheFirst ==
  [][(passes >= 1 /\ outcome.status = "fulfilled" /\ outcome'.status = "fulfilled") =>
       /\ webpackOutputPath' = webpackOutputPath
       /\ removeCalls' = removeCalls
       /\ OutputPaths' = OutputPaths
       /\ IsSome(multiCompile') = individually
       /\ IsSome(entryFunctions') = individually]_vars

(***************************************************************************)
(* Properties of individual packaging.                                     *)
(***************************************************************************)
\* A fulfilled pass with individual packaging has been made.
FannedOut == passes >= 1 /\ individually /\ outcome.status = "fulfilled"

\* The entry {key: value} as a configuration holds it.
EntryOf(e) == Some(EntryObject(<<e>>))

\* The entry a binding carries, as a key and value pair.
CarriedBy(entryFunc) == <<Val(entryFunc.entry).key, Val(entryFunc.entry).value>>

\* C15: after a fulfilled pass with individual packaging every entry of the
\* EntryMap is the entry of at least one configuration and is carried by at
\* least one binding, and every binding of a function carries the entry of
\* the file its handler denotes under the key its handler spells or another
\* spelling of it: the entries the bindings carry are, in order and without
\* repetition, the EntryMap.
C15_EveryEntryHasItsConfiguration ==
  FannedOut =>
    /\ \A e \in Range(Val(lib.entries)) :
         /\ \E k \in 1..Len(webpackConfig.arr) : webpackConfig.arr[k].entry = EntryOf(e)
         /\ \E k \in 1..Len(Val(entryFunctions)) : CarriedBy(Val(entryFunctions)[k]) = e
    /\ Uniq([k \in 1..Len(Val(entryFunctions)) |-> CarriedBy(Val(entryFunctions)[k])])
         = Val(lib.entries)

\* The declared functions whose handler has the base path b.
DeclaredWith(b) == {i \in 1..Len(functions) : getHandlerFile(functions[i]) = Some(b)}

\* The positions of the configurations whose entry is e.
ConfigsOf(e) == {k \in 1..Len(webpackConfig.arr) : webpackConfig.arr[k].entry = EntryOf(e)}

\* C16: after a fulfilled pass with individual packaging there is one
\* configuration per binding, with the entry of the binding; the entries of
\* the configurations follow the order of the EntryMap; the k functions
\* declared with the base path of an entry give that entry k neighbouring
\* configurations whose output paths are the pre-fan-out path joined with
\* the k function names; and without a selected function there are as many
\* configurations as declared functions with a base path.
C16_OneConfigurationPerBinding ==
  FannedOut =>
    /\ Len(webpackConfig.arr) = Len(Val(entryFunctions))
    /\ \A k \in 1..Len(webpackConfig.arr) :
         webpackConfig.arr[k].entry = EntryOf(CarriedBy(Val(entryFunctions)[k]))
    /\ Uniq([k \in 1..Len(webpackConfig.arr) |-> webpackConfig.arr[k].entry])
         = [k \in 1..Len(Val(lib.entries)) |-> EntryOf(Val(lib.entries)[k])]
    /\ \A e \in Range(Val(lib.entries)) :
         /\ \A i, j \in ConfigsOf(e) : \A k \in i..j : k \in ConfigsOf(e)
         /\ Cardinality(ConfigsOf(e)) = Cardinality(DeclaredWith(e[1]))
         /\ {Val(webpackConfig.arr[k].output).path : k \in ConfigsOf(e)}
              = {Some(PathJoin(Val(webpackOutputPath), FuncName(i))) : i \in DeclaredWith(e[1])}
    /\ optFunction = 0 =>
         Len(webpackConfig.arr) =
           Cardinality({i \in 1..Len(functions) : ~Unparsable(functions[i])})

(***************************************************************************)
(* The entry value and the file it names (SpecResolver).                   *)
(***************************************************************************)
\* C17: the value of the entry of 'a' names the winner among the candidates
\* of 'a', a file of the listing.
C17_EntryValueNamesTheWinner ==
  (ResolvedA /\ CandidatesA # <<>>) =>
    /\ PathRelative(Val(lib.entries)[1][2]) \in Range(CandidatesA)
    /\ PathRelative(Val(lib.entries)[1][2]) = Winner(CandidatesA)

====
